---- MODULE Spec2Model ----
(***************************************************************************)
(* Extended/Lighter cross-exchange arbitrage: the coordination loop        *)
(* (ExtendedArb.run), the OrderManager, the OrderBookManager, the          *)
(* PositionTracker and the feed handlers that drive them.  All tasks run   *)
(* on one asyncio event loop, so an action is the code between two         *)
(* suspension points (the await of a venue request or of a sleep).         *)
(*                                                                         *)
(* Units: prices are integers; a hedge price is kept in hundredths         *)
(* (price * 105 stands for price * 1.05).  A quote is a whole number of    *)
(* ticks of its venue, so one tick is HundredthsPerTick hundredths (the    *)
(* quote 110.5 at tick 0.01 is 11050; times 0.95 it is 1049750             *)
(* hundredths, 10497.5 ticks).  The clock of the fill-wait is              *)
(* in whole seconds: one MonitorSleep step stands for the 0.1 s polls of   *)
(* one second.                                                             *)
(*                                                                         *)
(* Specifications:                                                         *)
(*   Spec      the trading loop as the sources have it, default timeout    *)
(*   SpecCfg   every fill_timeout the constructor may be given             *)
(*   SpecPos   the PositionTracker is driven as well                       *)
(*   SpecRaise place_lighter_market_order may raise (its body is not in    *)
(*             the sources; the loop's except clause is)                   *)
(*   SpecStop  stop() may be called and the loop may end                   *)
(*   SpecWire  the venue reports an order's side as the payload of         *)
(*             place_open_order carried it ("BUY" / "SELL"), thresholds 0  *)
(*   SpecZero  Spec with both thresholds 0                                 *)
(*   SpecLive  SpecStop with thresholds 0 and a coordinator that is always *)
(*             resumed (weak fairness of its steps)                        *)
(*   SpecPayload    Spec with order events that lack a filled size,        *)
(*             thresholds 0                                                *)
(*   SpecInterrupt  the task of run() may be cancelled at any await        *)
(*   SpecFail  SpecStop with the raising hedge, thresholds 0               *)
(*   SpecStartup    run() from its wait for the order book on              *)
(*   SpecBook  the two order-book feeds alone, with absent, unparseable    *)
(*             and zero prices in their messages                           *)
(*   SpecWired the feeds and run() with the Lighter feed as                *)
(*             start_lighter_websocket builds it                           *)
(*   SpecFeeds the feed tasks connecting, failing, reconnecting and being  *)
(*             shut down, with order events that carry no order id         *)
(*   SpecIdless     Spec with order events that carry no order id,         *)
(*             thresholds 0                                                *)
(*   SpecReconcile  the PositionTracker with get_extended_position         *)
(*   SpecQuoteBook  update_extended_bbo / update_lighter_bbo called with   *)
(*             every pair of arguments                                     *)
(***************************************************************************)
EXTENDS Integers, FiniteSets, Sequences, TLC

\* ------------------------------------------------------------------ bounds
MaxOrders == 2
MaxAbsPosition == 1

\* ------------------------------------------------- program constants
None == -1
\* a value Decimal(str(value)) cannot parse
Junk == -2
MonitorTimeout == 5
\* the urls LighterCustomWebSocketManager.connect goes through
NumUrls == 2
DefaultFillTimeout == 5
TakerUp == 105
TakerDown == 95

\* lighter_tick_size, in hundredths of the price unit
HundredthsPerTick == 100

\* ------------------------------------------------------ input domains
OrderQuantity == 1
Prices == {1, 2}
RawPrices == Prices \cup {None}
\* what a feed message may carry as a price: absent, unparseable, 0, a price
RawValues == Prices \cup {None, Junk, 0}
Thresholds == {-1, 0}
FillTimeouts == {2, DefaultFillTimeout}
MaxPositions == {1}
Sides == {"buy", "sell"}
Statuses == {"FILLED", "OPEN", "CANCELED", "none"}
FilledSizes == {OrderQuantity}
PositionDeltas == {-1, 1}
OrderIds == 1..MaxOrders
\* the three feed tasks of the WebSocketManagerWrapper
Feeds == {"extended_ws_task", "extended_account_ws_task", "lighter_ws_task"}
TaskStates == {"connecting", "connected", "backoff", "done", "cancelled"}
\* answers of maker_client.get_account_positions
Answers == {"raises", "none", "value"}
Positions == (-MaxAbsPosition)..MaxAbsPosition

VARIABLES
    \* ExtendedArb configuration (immutable after construction) and stop_flag
    fill_timeout, max_position, long_ex_threshold, short_ex_threshold,
    stop_flag,
    \* OrderBookManager
    extended_bbo, lighter_bbo,
    \* LighterCustomWebSocketManager.order_book_manager is set
    lighter_ws_obm,
    \* OrderManager
    current_maker_order_id, waiting_for_lighter_fill,
    current_lighter_side, current_lighter_quantity, current_lighter_price,
    \* PositionTracker
    extended_position, lighter_position,
    \* position of the coordination task, the arguments of its pending
    \* place_open_order call, the clock of its fill-wait
    pc, req_side, req_quantity, req_price, elapsed,
    \* the Extended venue: state of every order it accepted, side of the last
    orders, maker_side,
    \* history: the order a pending hedge was armed for (0: none is armed),
    \* the orders a hedge was dispatched for
    armed_for, hedged,
    \* WebSocketManagerWrapper: stop_flag, the state of its three feed tasks,
    \* the position of the Lighter task in its list of urls
    ws_stop_flag, ws_task, lighter_url,
    \* what the last PositionTracker.get_extended_position logged
    position_log

cfgVars == <<fill_timeout, max_position, long_ex_threshold, short_ex_threshold>>
bookVars == <<extended_bbo, lighter_bbo, lighter_ws_obm>>
omVars == <<current_maker_order_id, waiting_for_lighter_fill,
            current_lighter_side, current_lighter_quantity, current_lighter_price>>
posVars == <<extended_position, lighter_position>>
reqVars == <<req_side, req_quantity, req_price>>
taskVars == <<pc, reqVars, elapsed>>
venueVars == <<orders, maker_side>>
histVars == <<armed_for, hedged>>
feedVars == <<ws_stop_flag, ws_task, lighter_url>>
logVars == <<position_log>>
vars == <<cfgVars, feedVars, logVars, stop_flag, bookVars, omVars, posVars, taskVars,
          venueVars, histVars>>

\* ------------------------------------------------------------ helpers

\* Python truthiness of a quote: None and Decimal(0) are falsy.
Truthy(x) == x # None /\ x # 0

Bbo(bid, ask) == [bid |-> bid, ask |-> ask]

get_extended_bbo == <<extended_bbo.bid, extended_bbo.ask>>

get_lighter_bbo == <<lighter_bbo.bid, lighter_bbo.ask>>

extended_order_book_ready == extended_bbo.bid # None /\ extended_bbo.ask # None

lighter_order_book_ready == lighter_bbo.bid # None /\ lighter_bbo.ask # None

AllQuotesExtendedOnly ==
    Truthy(get_extended_bbo[1]) /\ Truthy(get_extended_bbo[2])

\* all([ex_bid, ex_ask, l_bid, l_ask])
AllQuotes == /\ Truthy(get_extended_bbo[1]) /\ Truthy(get_extended_bbo[2])
             /\ Truthy(get_lighter_bbo[1]) /\ Truthy(get_lighter_bbo[2])

get_net_position == extended_position + lighter_position

Abs(x) == IF x < 0 THEN -x ELSE x

Placed == {o \in OrderIds : orders[o] # "none"}

LiveOrders == {o \in OrderIds : orders[o] = "open"}

NextId == Cardinality(Placed) + 1

\* The OrderManager's order state as one record.
OmState ==
    [id |-> current_maker_order_id, waiting |-> waiting_for_lighter_fill,
     side |-> current_lighter_side, quantity |-> current_lighter_quantity,
     price |-> current_lighter_price]

TypeOK ==
    /\ fill_timeout \in FillTimeouts /\ max_position \in MaxPositions
    /\ long_ex_threshold \in Thresholds /\ short_ex_threshold \in Thresholds
    /\ stop_flag \in BOOLEAN /\ lighter_ws_obm \in BOOLEAN
    /\ extended_bbo \in [bid : RawPrices \cup {0}, ask : RawPrices \cup {0}]
    /\ lighter_bbo \in [bid : RawPrices \cup {0}, ask : RawPrices \cup {0}]
    /\ current_maker_order_id \in OrderIds \cup {None}
    /\ waiting_for_lighter_fill \in BOOLEAN
    /\ current_lighter_side \in Sides \cup {"none"}
    /\ current_lighter_quantity \in {None, 0, OrderQuantity}
    /\ extended_position \in Positions
    /\ lighter_position \in Positions
    /\ ws_stop_flag \in BOOLEAN /\ ws_task \in [Feeds -> TaskStates]
    /\ lighter_url \in 1..NumUrls
    /\ position_log \in {"none", "error", "drift"}
    /\ pc \in {"startup", "loop", "placing", "monitor", "cancelling", "hedging",
              "stopped"}
    /\ req_side \in Sides \cup {"none"} /\ req_price \in RawPrices
    /\ req_quantity \in {None, OrderQuantity}
    /\ elapsed \in 0..(MonitorTimeout + 1)
    /\ orders \in [OrderIds -> {"none", "open", "filled", "cancelled"}]
    /\ maker_side \in Sides \cup {"none"}
    /\ armed_for \in OrderIds \cup {None, 0}
    /\ hedged \subseteq OrderIds \cup {None}

\* ---------------------------------------------------------------- Init
\* ExtendedArb.__init__, OrderManager.__init__, OrderBookManager.__init__,
\* PositionTracker.__init__; the coordination task stands at the trading loop.
InitState ==
    /\ max_position \in MaxPositions
    /\ long_ex_threshold \in Thresholds
    /\ short_ex_threshold \in Thresholds
    /\ stop_flag = FALSE
    /\ extended_bbo = Bbo(None, None)
    /\ lighter_bbo = Bbo(None, None)
    /\ lighter_ws_obm = FALSE
    /\ current_maker_order_id = None
    /\ waiting_for_lighter_fill = FALSE
    /\ current_lighter_side = "none"
    /\ current_lighter_quantity = None
    /\ current_lighter_price = None
    /\ extended_position = 0
    /\ lighter_position = 0
    /\ pc = "loop"
    /\ req_side = "none"
    /\ req_quantity = None
    /\ req_price = None
    /\ elapsed = 0
    /\ orders = [o \in OrderIds |-> "none"]
    /\ maker_side = "none"
    /\ armed_for = 0
    /\ hedged = {}
    /\ ws_stop_flag = FALSE
    /\ lighter_url = 1
    /\ position_log = "none"

\* the feed tasks have been created and have connected
FeedsConnected == ws_task = [f \in Feeds |-> "connected"]

\* the feed tasks have been created and have not run yet
FeedsCreated == ws_task = [f \in Feeds |-> "connecting"]

Init == fill_timeout = DefaultFillTimeout /\ FeedsConnected /\ InitState

InitCfg == fill_timeout \in FillTimeouts /\ FeedsConnected /\ InitState

\* The state run() is in when it reaches "4. Wait for Book".
InitStartupState ==
    /\ fill_timeout = DefaultFillTimeout
    /\ max_position \in MaxPositions
    /\ long_ex_threshold \in Thresholds
    /\ short_ex_threshold \in Thresholds
    /\ stop_flag = FALSE
    /\ extended_bbo = Bbo(None, None)
    /\ lighter_bbo = Bbo(None, None)
    /\ lighter_ws_obm = FALSE
    /\ current_maker_order_id = None
    /\ waiting_for_lighter_fill = FALSE
    /\ current_lighter_side = "none"
    /\ current_lighter_quantity = None
    /\ current_lighter_price = None
    /\ extended_position = 0
    /\ lighter_position = 0
    /\ pc = "startup"
    /\ req_side = "none"
    /\ req_quantity = None
    /\ req_price = None
    /\ elapsed = 0
    /\ orders = [o \in OrderIds |-> "none"]
    /\ maker_side = "none"
    /\ armed_for = 0
    /\ hedged = {}
    /\ ws_stop_flag = FALSE
    /\ lighter_url = 1
    /\ position_log = "none"

InitStartup == FeedsConnected /\ InitStartupState

\* ------------------------------------------------------ feed tasks
ReceivingAlways(f) == TRUE

\* The task f takes the next message of its connection: "async for message in
\* ws" with the "if self.stop_flag: break" of the two Extended tasks (the
\* Lighter manager tests its own stop_flag, which nothing sets).
Receiving(f) ==
    /\ ws_task[f] = "connected"
    /\ f # "lighter_ws_task" => ~ws_stop_flag

\* WebSocketManagerWrapper.shutdown: the feed state after the call (cancel()
\* of a task that has ended changes nothing).
shutdown ==
    /\ ws_stop_flag' = TRUE
    /\ ws_task' = [f \in Feeds |->
                     IF ws_task[f] \in {"done", "cancelled"} THEN ws_task[f]
                                                            ELSE "cancelled"]
    /\ UNCHANGED lighter_url

\* websockets.connect returns: the task subscribes and reads its stream.
ConnectOpened(f) ==
    /\ ws_task[f] = "connecting"
    /\ ws_task' = [ws_task EXCEPT ![f] = "connected"]
    /\ UNCHANGED <<cfgVars, ws_stop_flag, lighter_url, logVars, stop_flag, bookVars,
                   omVars, posVars, taskVars, venueVars, histVars>>

\* The connection attempt or the open connection raises (refused, timed
\* out, protocol error): the task logs the error and sleeps.
ConnectError(f) ==
    /\ ws_task[f] \in {"connecting", "connected"}
    /\ ws_task' = [ws_task EXCEPT ![f] = "backoff"]
    /\ UNCHANGED <<cfgVars, ws_stop_flag, lighter_url, logVars, stop_flag, bookVars,
                   omVars, posVars, taskVars, venueVars, histVars>>

\* The sleep after an error is over.  run_public_ws and run_private_ws test
\* "while not self.stop_flag" and connect again; connect() of the Lighter
\* manager goes to the next url of its list and returns when the list ends.
BackoffOver(f) ==
    /\ ws_task[f] = "backoff"
    /\ IF f = "lighter_ws_task"
          THEN IF lighter_url < NumUrls
                  THEN /\ lighter_url' = lighter_url + 1
                       /\ ws_task' = [ws_task EXCEPT ![f] = "connecting"]
                  ELSE /\ ws_task' = [ws_task EXCEPT ![f] = "done"]
                       /\ UNCHANGED lighter_url
          ELSE /\ ws_task' = [ws_task EXCEPT ![f] =
                                IF ws_stop_flag THEN "done" ELSE "connecting"]
               /\ UNCHANGED lighter_url
    /\ UNCHANGED <<cfgVars, ws_stop_flag, logVars, stop_flag, bookVars,
                   omVars, posVars, taskVars, venueVars, histVars>>

\* The peer closes the connection and "async for message in ws" ends: the
\* Extended tasks go round their while loop at once, connect() of the
\* Lighter manager returns.
ConnectionClosed(f) ==
    /\ ws_task[f] = "connected"
    /\ ws_task' = [ws_task EXCEPT ![f] =
                     IF f = "lighter_ws_task" \/ ws_stop_flag THEN "done"
                                                              ELSE "connecting"]
    /\ UNCHANGED <<cfgVars, ws_stop_flag, lighter_url, logVars, stop_flag, bookVars,
                   omVars, posVars, taskVars, venueVars, histVars>>

\* WebSocketManagerWrapper.shutdown is called.
Shutdown ==
    /\ shutdown
    /\ UNCHANGED <<cfgVars, logVars, stop_flag, bookVars, omVars, posVars, taskVars,
                   venueVars, histVars>>

\* ------------------------------------------------- OrderBookManager
\* _to_decimal: None for None and for what Decimal cannot parse
to_decimal(value) == IF value = None \/ value = Junk THEN None ELSE value

update_extended_bbo_bid_only(bid, ask) ==
    extended_bbo' = [extended_bbo EXCEPT !.bid = to_decimal(bid)]

update_extended_bbo(bid, ask) ==
    extended_bbo' = Bbo(to_decimal(bid), to_decimal(ask))

update_lighter_bbo(bid, ask) ==
    lighter_bbo' = Bbo(to_decimal(bid), to_decimal(ask))

\* ------------------------------------------------------------- feeds
\* WebSocketManagerWrapper._handle_extended_book_update: the first bid and the
\* first ask of the message (None: that side is absent or empty).  A price
\* Decimal(str(...)) cannot parse raises; run_public_ws catches and logs it.
HandleExtendedBookUpdate(best_bid, best_ask) ==
    /\ Receiving("extended_ws_task")
    /\ IF best_bid # None /\ best_ask # None /\ best_bid # Junk /\ best_ask # Junk
          THEN update_extended_bbo(best_bid, best_ask)
          ELSE UNCHANGED extended_bbo
    /\ UNCHANGED <<cfgVars, feedVars, logVars, stop_flag, lighter_bbo, lighter_ws_obm, omVars, posVars,
                   taskVars, venueVars, histVars>>

\* LighterCustomWebSocketManager.set_order_book_manager
SetOrderBookManager ==
    /\ pc # "stopped"
    /\ ~lighter_ws_obm
    /\ lighter_ws_obm' = TRUE
    /\ UNCHANGED <<cfgVars, feedVars, logVars, stop_flag, extended_bbo, lighter_bbo, omVars, posVars,
                   taskVars, venueVars, histVars>>

\* LighterCustomWebSocketManager._parse_message
ParseMessage(bb, ba) ==
    /\ Receiving("lighter_ws_task")
    /\ IF lighter_ws_obm /\ (bb # None \/ ba # None) /\ Truthy(bb) /\ Truthy(ba)
          THEN update_lighter_bbo(bb, ba)
          ELSE UNCHANGED lighter_bbo
    /\ UNCHANGED <<cfgVars, feedVars, logVars, stop_flag, extended_bbo, lighter_ws_obm, omVars, posVars,
                   taskVars, venueVars, histVars>>

\* ------------------------------------------------------ OrderManager
HedgePriceSwapped(lighter_side, l_bid, l_ask) ==
    IF lighter_side = "buy"
       THEN (IF Truthy(l_bid) THEN l_bid * TakerDown ELSE None)
       ELSE (IF Truthy(l_ask) THEN l_ask * TakerUp ELSE None)

\* The aggressive taker price of handle_extended_order_update, in hundredths.
HedgePrice(lighter_side, l_bid, l_ask) ==
    IF lighter_side = "buy"
       THEN (IF Truthy(l_ask) THEN l_ask * TakerUp ELSE None)
       ELSE (IF Truthy(l_bid) THEN l_bid * TakerDown ELSE None)

HedgeSide(side) == IF side = "buy" THEN "sell" ELSE "buy"

\* Decimal(str(order_data.get('filled_size', 0)))
FilledQty(filled_size) == IF filled_size = None THEN 0 ELSE filled_size

MatchesAnyId(oid, status) == status = "FILLED"

MatchesAnyStatus(oid, status) == oid = current_maker_order_id

\* the guard of handle_extended_order_update
Matches(oid, status) == oid = current_maker_order_id /\ status = "FILLED"

\* handle_extended_order_update: the OrderManager's order state after the call
handle_extended_order_update(oid, status, side, filled_size) ==
    IF Matches(oid, status)
       THEN [id |-> current_maker_order_id,
             waiting |-> TRUE,
             side |-> HedgeSide(side),
             quantity |-> FilledQty(filled_size),
             price |-> HedgePrice(HedgeSide(side), get_lighter_bbo[1],
                                  get_lighter_bbo[2])]
       ELSE OmState

\* What the venue reports: its own orders in their true state, any number of
\* times.
CanReport(oid, status, side) ==
    /\ oid \in Placed
    /\ oid = current_maker_order_id => side = maker_side
    /\ \/ status \in {"OPEN", "none"}
       \/ status = "FILLED" /\ orders[oid] = "filled"
       \/ status = "CANCELED" /\ orders[oid] = "cancelled"

\* WebSocketManagerWrapper._handle_extended_order_update -> the callback
DeliverOrderUpdate(oid, status, side, filled_size) ==
    /\ Receiving("extended_account_ws_task")
    /\ CanReport(oid, status, side)
    /\ LET om == handle_extended_order_update(oid, status, side, filled_size)
       IN  /\ current_maker_order_id' = om.id
           /\ waiting_for_lighter_fill' = om.waiting
           /\ current_lighter_side' = om.side
           /\ current_lighter_quantity' = om.quantity
           /\ current_lighter_price' = om.price
    /\ armed_for' = IF Matches(oid, status) THEN oid ELSE armed_for
    /\ UNCHANGED <<cfgVars, feedVars, logVars, stop_flag, bookVars, posVars, taskVars, venueVars,
                   hedged>>

\* An ORDER_UPDATE message without "orderId": data.get('orderId') is None.
DeliverIdlessOrderUpdate(status, side, filled_size) ==
    /\ Receiving("extended_account_ws_task")
    /\ LET om == handle_extended_order_update(None, status, side, filled_size)
       IN  /\ current_maker_order_id' = om.id
           /\ waiting_for_lighter_fill' = om.waiting
           /\ current_lighter_side' = om.side
           /\ current_lighter_quantity' = om.quantity
           /\ current_lighter_price' = om.price
    /\ armed_for' = IF Matches(None, status) THEN None ELSE armed_for
    /\ UNCHANGED <<cfgVars, feedVars, logVars, stop_flag, bookVars, posVars, taskVars,
                   venueVars, hedged>>

\* The venue fills a resting order.
VenueFill(o) ==
    /\ orders[o] = "open"
    /\ orders' = [orders EXCEPT ![o] = "filled"]
    /\ UNCHANGED <<cfgVars, feedVars, logVars, stop_flag, bookVars, omVars, posVars, taskVars,
                   maker_side, histVars>>

\* ExtendedClient.place_open_order: the side as the order payload carries it.
WireSide(direction) == IF direction = "buy" THEN "BUY" ELSE "SELL"

\* The execution report of an order whose side comes back as it was sent.
DeliverWireOrderUpdate(oid, status, filled_size) ==
    /\ Receiving("extended_account_ws_task")
    /\ CanReport(oid, status, maker_side)
    /\ LET om == handle_extended_order_update(oid, status, WireSide(maker_side),
                                              filled_size)
       IN  /\ current_maker_order_id' = om.id
           /\ waiting_for_lighter_fill' = om.waiting
           /\ current_lighter_side' = om.side
           /\ current_lighter_quantity' = om.quantity
           /\ current_lighter_price' = om.price
    /\ armed_for' = IF Matches(oid, status) THEN oid ELSE armed_for
    /\ UNCHANGED <<cfgVars, feedVars, logVars, stop_flag, bookVars, posVars, taskVars, venueVars,
                   hedged>>

\* ------------------------------------------------- ExtendedArb.run
long_opp_ge == (get_lighter_bbo[1] - get_extended_bbo[1]) >= long_ex_threshold

\* the spread tests of the trading loop
long_opp == (get_lighter_bbo[1] - get_extended_bbo[1]) > long_ex_threshold

short_opp_ge == (get_extended_bbo[2] - get_lighter_bbo[2]) >= short_ex_threshold

short_opp == (get_extended_bbo[2] - get_lighter_bbo[2]) > short_ex_threshold

\* the side the tick places on: if long_opp / elif short_opp
Opportunity == IF long_opp THEN "buy" ELSE IF short_opp THEN "sell" ELSE "none"

MakerPriceSwapped(side) ==
    IF side = "buy" THEN get_extended_bbo[2] ELSE get_extended_bbo[1]

\* place_extended_post_only_order: the maker price, from its own read of the book
MakerPrice(side) == IF side = "buy" THEN get_extended_bbo[1] ELSE get_extended_bbo[2]

\* "if self.order_manager.waiting_for_lighter_fill": the hedge is dispatched
\* (place_lighter_market_order is awaited) or the tick ends in its sleep.
HedgeCheck ==
    IF waiting_for_lighter_fill
       THEN /\ pc' = "hedging"
            /\ hedged' = hedged \cup {armed_for}
       ELSE /\ pc' = "loop"
            /\ UNCHANGED hedged

\* A tick without all four quotes: sleep 0.1 and continue.
TickNoQuotes ==
    /\ pc = "loop" /\ ~stop_flag
    /\ ~AllQuotes
    /\ UNCHANGED vars

\* A tick with an opportunity: place_extended_post_only_order runs up to the
\* await of place_open_order.
TickPlace ==
    /\ pc = "loop" /\ ~stop_flag
    /\ AllQuotes
    /\ Opportunity # "none"
    /\ pc' = "placing"
    /\ req_side' = Opportunity
    /\ req_quantity' = OrderQuantity
    /\ req_price' = MakerPrice(Opportunity)
    /\ UNCHANGED <<cfgVars, feedVars, logVars, stop_flag, bookVars, omVars, posVars, elapsed, venueVars,
                   histVars>>

\* A tick without an opportunity goes straight to the hedging test.
TickIdle ==
    /\ pc = "loop" /\ ~stop_flag
    /\ AllQuotes
    /\ Opportunity = "none"
    /\ HedgeCheck
    /\ UNCHANGED <<cfgVars, feedVars, logVars, stop_flag, bookVars, omVars, posVars, reqVars, elapsed,
                   venueVars, armed_for>>

\* One tick of the trading loop, up to its first suspension.
Tick == TickNoQuotes \/ TickPlace \/ TickIdle

\* place_extended_post_only_order without the test of result.success: the id
\* of the result is tracked and the fill-wait starts whatever the answer.
PlaceReturnUnchecked(success) ==
    /\ pc = "placing"
    /\ IF success
          THEN /\ NextId <= MaxOrders
               /\ orders' = [orders EXCEPT ![NextId] = "open"]
               /\ maker_side' = req_side
               /\ current_maker_order_id' = NextId
          ELSE /\ current_maker_order_id' = None
               /\ UNCHANGED <<orders, maker_side>>
    /\ pc' = "monitor"
    /\ req_side' = "none"
    /\ req_quantity' = None
    /\ req_price' = None
    /\ elapsed' = 0
    /\ UNCHANGED <<cfgVars, feedVars, logVars, stop_flag, bookVars, waiting_for_lighter_fill,
                   current_lighter_side, current_lighter_quantity,
                   current_lighter_price, posVars, histVars>>

\* place_open_order answers.  Success: the venue holds a new open order, its id
\* is tracked and the fill-wait starts.  Failure: return False, on to the
\* hedging test.
PlaceReturn(success) ==
    /\ pc = "placing"
    /\ IF success
          THEN /\ NextId <= MaxOrders
               /\ orders' = [orders EXCEPT ![NextId] = "open"]
               /\ maker_side' = req_side
               /\ current_maker_order_id' = NextId
               /\ pc' = "monitor"
               /\ UNCHANGED hedged
          ELSE /\ HedgeCheck
               /\ UNCHANGED <<orders, maker_side, current_maker_order_id>>
    /\ req_side' = "none"
    /\ req_quantity' = None
    /\ req_price' = None
    /\ elapsed' = 0
    /\ UNCHANGED <<cfgVars, feedVars, logVars, stop_flag, bookVars, waiting_for_lighter_fill,
                   current_lighter_side, current_lighter_quantity,
                   current_lighter_price, posVars, armed_for>>

\* _monitor_extended_order_fill, one turn of its loop: past the timeout it
\* sends cancel_order, otherwise it sleeps.  Its stop_flag is the False it was
\* called with.
MonitorTimedOut == elapsed > MonitorTimeout

MonitorSleep ==
    /\ pc = "monitor"
    /\ ~MonitorTimedOut
    /\ elapsed' = elapsed + 1
    /\ UNCHANGED <<cfgVars, feedVars, logVars, stop_flag, bookVars, omVars, posVars, pc, reqVars,
                   venueVars, histVars>>

MonitorCancel ==
    /\ pc = "monitor"
    /\ MonitorTimedOut
    /\ pc' = "cancelling"
    /\ UNCHANGED <<cfgVars, feedVars, logVars, stop_flag, bookVars, omVars, posVars, reqVars, elapsed,
                   venueVars, histVars>>

\* cancel_order answers (ExtendedClient.cancel_order returns an OrderResult and
\* raises nothing): success for HTTP 200, failure for any other status and
\* for an exception.  A resting order is cancelled by a successful request;
\* the venue may answer either way for an order that no longer rests.  The
\* monitor ignores the result and returns False, and the tick goes on to the
\* hedging test.
CancelReturn(success) ==
    /\ pc = "cancelling"
    /\ IF success /\ orders[current_maker_order_id] = "open"
          THEN orders' = [orders EXCEPT ![current_maker_order_id] = "cancelled"]
          ELSE UNCHANGED orders
    /\ HedgeCheck
    /\ elapsed' = 0
    /\ UNCHANGED <<cfgVars, feedVars, logVars, stop_flag, bookVars, omVars, posVars, reqVars,
                   maker_side, armed_for>>

\* place_lighter_market_order returns: the flag is cleared and the tick ends
\* in its sleep.
HedgeReturn ==
    /\ pc = "hedging"
    /\ pc' = "loop"
    /\ waiting_for_lighter_fill' = FALSE
    /\ armed_for' = 0
    /\ UNCHANGED <<cfgVars, feedVars, logVars, stop_flag, bookVars, current_maker_order_id,
                   current_lighter_side, current_lighter_quantity,
                   current_lighter_price, posVars, reqVars, elapsed, venueVars,
                   hedged>>

\* place_lighter_market_order raises: the loop's except clause logs, sleeps
\* and the next tick starts; the flag is not cleared.
HedgeRaise ==
    /\ pc = "hedging"
    /\ pc' = "loop"
    /\ UNCHANGED <<cfgVars, feedVars, logVars, stop_flag, bookVars, omVars, posVars, reqVars, elapsed,
                   venueVars, histVars>>

\* ExtendedArb.stop
Stop ==
    /\ ~stop_flag
    /\ pc # "stopped"
    /\ stop_flag' = TRUE
    /\ UNCHANGED <<cfgVars, feedVars, logVars, bookVars, omVars, posVars, taskVars, venueVars, histVars>>

LoopExitUnguarded ==
    /\ pc = "loop"
    /\ pc' = "stopped"
    /\ shutdown
    /\ UNCHANGED <<cfgVars, logVars, stop_flag, bookVars, omVars, posVars, reqVars, elapsed,
                   venueVars, histVars>>

\* "while not self.stop_flag" fails: the loop ends, the feeds are shut down.
LoopExit ==
    /\ pc = "loop" /\ stop_flag
    /\ pc' = "stopped"
    /\ shutdown
    /\ UNCHANGED <<cfgVars, logVars, stop_flag, bookVars, omVars, posVars, reqVars, elapsed,
                   venueVars, histVars>>

\* The task of run() is cancelled (asyncio.run on an interrupt) while it is
\* suspended: CancelledError passes both "except Exception" clauses, the
\* finally block disconnects the client and shuts the feeds down.
TaskCancelled ==
    /\ pc \notin {"startup", "stopped"}
    /\ pc' = "stopped"
    /\ shutdown
    /\ UNCHANGED <<cfgVars, logVars, stop_flag, bookVars, omVars, posVars, reqVars, elapsed,
                   venueVars, histVars>>

\* "4. Wait for Book", one turn: sleep 1 while the Extended book is not ready.
StartupWait ==
    /\ pc = "startup"
    /\ ~extended_order_book_ready /\ ~stop_flag
    /\ UNCHANGED vars

\* The wait ends: the Extended book is ready (or stop was requested).
StartupDone ==
    /\ pc = "startup"
    /\ extended_order_book_ready \/ stop_flag
    /\ pc' = "loop"
    /\ UNCHANGED <<cfgVars, feedVars, logVars, stop_flag, bookVars, omVars, posVars, reqVars, elapsed,
                   venueVars, histVars>>

\* ---------------------------------------------------- PositionTracker
update_lighter_position(delta) ==
    /\ pc # "stopped"
    /\ Abs(lighter_position + delta) <= MaxAbsPosition
    /\ lighter_position' = lighter_position + delta
    /\ UNCHANGED <<cfgVars, feedVars, logVars, stop_flag, bookVars, omVars, extended_position, taskVars,
                   venueVars, histVars>>

\* PositionTracker.get_extended_position.  maker_client.get_account_positions
\* is called with the contract id: ExtendedClient.get_account_positions takes
\* no argument, so with that client the call raises; the client of the
\* interface file answers None; a client that takes the argument answers a
\* position.
get_extended_position(answer, pos) ==
    /\ pc # "stopped"
    /\ extended_position' = IF answer = "value" THEN pos ELSE extended_position
    /\ position_log' = IF answer = "raises" THEN "error" ELSE "none"
    /\ UNCHANGED <<cfgVars, feedVars, stop_flag, bookVars, omVars, lighter_position,
                   taskVars, venueVars, histVars>>

\* ----------------------------------------------------- specifications
Next ==
    \/ \E b, a \in RawPrices : HandleExtendedBookUpdate(b, a)
    \/ SetOrderBookManager
    \/ \E b, a \in RawPrices : ParseMessage(b, a)
    \/ \E oid \in OrderIds, st \in Statuses, sd \in Sides, fs \in FilledSizes :
          DeliverOrderUpdate(oid, st, sd, fs)
    \/ \E o \in OrderIds : VenueFill(o)
    \/ TickNoQuotes
    \/ TickPlace
    \/ TickIdle
    \/ \E ok \in BOOLEAN : PlaceReturn(ok)
    \/ MonitorSleep
    \/ MonitorCancel
    \/ \E ok \in BOOLEAN : CancelReturn(ok)
    \/ HedgeReturn

Spec == Init /\ [][Next]_vars

SpecCfg == InitCfg /\ [][Next]_vars

NextPos == Next \/ \E d \in PositionDeltas : update_lighter_position(d)

SpecPos == Init /\ [][NextPos]_vars

NextRaise == Next \/ HedgeRaise

SpecRaise == Init /\ [][NextRaise]_vars

NextStop == Next \/ Stop \/ LoopExit

SpecStop == Init /\ [][NextStop]_vars

NextWire ==
    \/ Next
    \/ \E oid \in OrderIds, st \in Statuses, fs \in FilledSizes :
          DeliverWireOrderUpdate(oid, st, fs)

\* one configuration: both thresholds 0
InitThresholdsZero == Init /\ long_ex_threshold = 0 /\ short_ex_threshold = 0

SpecWire == InitThresholdsZero /\ [][NextWire]_vars

SpecZero == InitThresholdsZero /\ [][Next]_vars

\* The trading loop with order events that may lack "filledSize":
\* data.get('filledSize', 0).
NextPayload ==
    \/ Next
    \/ \E oid \in OrderIds, st \in Statuses, sd \in Sides :
          DeliverOrderUpdate(oid, st, sd, None)

SpecPayload == InitThresholdsZero /\ [][NextPayload]_vars

\* The steps of the task of run(): the event loop resumes the task when its
\* sleep is over or the venue has answered its request.
Coordinator ==
    \/ TickPlace
    \/ TickIdle
    \/ \E ok \in BOOLEAN : PlaceReturn(ok)
    \/ MonitorSleep
    \/ MonitorCancel
    \/ \E ok \in BOOLEAN : CancelReturn(ok)
    \/ HedgeReturn
    \/ LoopExit

SpecLive == InitThresholdsZero /\ [][NextStop]_vars /\ WF_vars(Coordinator)

NextInterrupt == NextStop \/ TaskCancelled

SpecInterrupt == Init /\ [][NextInterrupt]_vars

NextFail == NextStop \/ HedgeRaise

SpecFail == InitThresholdsZero /\ [][NextFail]_vars

NextStartup == Next \/ StartupWait \/ StartupDone

SpecStartup == InitStartup /\ [][NextStartup]_vars

\* The feeds with everything a message may carry.
NextBook ==
    \/ \E b, a \in RawValues : HandleExtendedBookUpdate(b, a)
    \/ SetOrderBookManager
    \/ \E b, a \in RawValues : ParseMessage(b, a)

SpecBook == Init /\ [][NextBook]_vars

\* The program as ExtendedArb.run wires it: start_lighter_websocket builds the
\* LighterCustomWebSocketManager without an order book manager and nothing
\* calls set_order_book_manager, so of the ticks only the sleeping one can run.
NextWired ==
    \/ \E b, a \in RawValues : HandleExtendedBookUpdate(b, a)
    \/ \E b, a \in RawValues : ParseMessage(b, a)
    \/ StartupWait
    \/ StartupDone
    \/ TickNoQuotes
    \/ Stop
    \/ LoopExit

SpecWired == InitStartup /\ [][NextWired]_vars

\* The three feed tasks through their connections, with shutdown().
NextFeeds ==
    \/ \E f \in Feeds : ConnectOpened(f)
    \/ \E f \in Feeds : ConnectError(f)
    \/ \E f \in Feeds : BackoffOver(f)
    \/ \E f \in Feeds : ConnectionClosed(f)
    \/ Shutdown
    \/ \E b, a \in RawPrices : HandleExtendedBookUpdate(b, a)
    \/ SetOrderBookManager
    \/ \E b, a \in RawPrices : ParseMessage(b, a)
    \/ \E st \in Statuses, sd \in Sides, fs \in FilledSizes :
          DeliverIdlessOrderUpdate(st, sd, fs)

InitFeeds ==
    /\ FeedsCreated /\ InitStartupState
    /\ long_ex_threshold = 0 /\ short_ex_threshold = 0

SpecFeeds == InitFeeds /\ [][NextFeeds]_vars

\* The trading loop with order events that carry no order id.
NextIdless ==
    \/ Next
    \/ \E st \in Statuses, sd \in Sides, fs \in FilledSizes :
          DeliverIdlessOrderUpdate(st, sd, fs)

SpecIdless == InitThresholdsZero /\ [][NextIdless]_vars

\* The PositionTracker reconciled against the venue.
NextReconcile ==
    \/ \E a \in Answers, p \in Positions : get_extended_position(a, p)
    \/ \E d \in PositionDeltas : update_lighter_position(d)
    \/ \E b, a \in RawPrices : HandleExtendedBookUpdate(b, a)

SpecReconcile == Init /\ [][NextReconcile]_vars

\* The OrderBookManager driven through its two update methods, with every
\* pair of arguments.
CallUpdateExtendedBbo(bid, ask) ==
    /\ update_extended_bbo(bid, ask)
    /\ UNCHANGED <<cfgVars, feedVars, logVars, stop_flag, lighter_bbo, lighter_ws_obm, omVars,
                   posVars, taskVars, venueVars, histVars>>

CallUpdateLighterBbo(bid, ask) ==
    /\ update_lighter_bbo(bid, ask)
    /\ UNCHANGED <<cfgVars, feedVars, logVars, stop_flag, extended_bbo, lighter_ws_obm, omVars,
                   posVars, taskVars, venueVars, histVars>>

NextQuoteBook ==
    \/ \E b, a \in RawValues : CallUpdateExtendedBbo(b, a)
    \/ \E b, a \in RawValues : CallUpdateLighterBbo(b, a)

SpecQuoteBook == Init /\ [][NextQuoteBook]_vars

\* ------------------------------------------------------------- claims
\* A tick is about to run with all four quotes present.
AtTick == pc = "loop" /\ ~stop_flag /\ AllQuotes

LongSpread == lighter_bbo.bid - extended_bbo.bid

ShortSpread == extended_bbo.ask - lighter_bbo.ask

\* The tick issues place_open_order(side) / with exactly these arguments.
TickPlaces(side) == ENABLED (Tick /\ pc' = "placing" /\ req_side' = side)

TickPlacesAt(side, price) ==
    ENABLED (Tick /\ pc' = "placing" /\ req_side' = side
                  /\ req_quantity' = OrderQuantity /\ req_price' = price)

\* C1: at most one maker order placed by the coordinator is live (neither
\* filled nor cancelled) on the home venue at any time.
C1_AtMostOneLiveOrder == Cardinality(LiveOrders) <= 1

\* C2: a hedge is never dispatched for an order a hedge was already
\* dispatched for, however often its FILLED event is delivered.
C2_HedgeOncePerOrder ==
    [][(pc # "hedging" /\ pc' = "hedging") => armed_for \notin hedged]_vars

\* C3: an order event whose order id differs from current_maker_order_id
\* leaves the OrderManager's state (tracked id, waiting_for_lighter_fill,
\* current_lighter_side/quantity/price) as it was, so it arms no hedge.
C3_MismatchedEventIgnored ==
    \A oid \in OrderIds \cup {None}, st \in Statuses, sd \in Sides,
       fs \in FilledSizes \cup {None} :
        oid # current_maker_order_id =>
            handle_extended_order_update(oid, st, sd, fs) = OmState

\* a FILLED event of an earlier order can arrive while a later one is tracked
C3_Witness ==
    /\ current_maker_order_id \in OrderIds
    /\ \E o \in Placed : o # current_maker_order_id /\ orders[o] = "filled"
    /\ ~waiting_for_lighter_fill
    /\ hedged = {}

\* C4: a resting order without a fill is cancelled within one polling tick
\* after the configured fill_timeout: the fill-wait never lasts longer.
C4_CancelWithinFillTimeout == pc = "monitor" => elapsed <= fill_timeout + 1

\* C5: once the FILLED event of the tracked order has been accepted during
\* the fill-wait, the coordinator's next step dispatches the hedge: it neither
\* keeps waiting nor sends cancel_order.
C5_WaitEndsOnFill ==
    [][(/\ pc = "monitor"
        /\ waiting_for_lighter_fill
        /\ armed_for = current_maker_order_id
        /\ (pc' # pc \/ elapsed' # elapsed)) => pc' = "hedging"]_vars

\* C6: when a hedge attempt ends, whatever its outcome, the coordinator is
\* back at the loop with waiting_for_lighter_fill False, and the hedge of a
\* fill that was attempted is not attempted again on a later tick.
C6_IdleAfterHedgeAttempt ==
    [][/\ (pc = "hedging" /\ pc' # "hedging") =>
              (pc' = "loop" /\ ~waiting_for_lighter_fill')
       /\ (pc = "loop" /\ pc' = "hedging") =>
              armed_for \notin hedged]_vars

\* C7: with |net_position| >= max_position no maker order is placed on the
\* side that would increase the exposure.
C7_PositionCapGatesPlacement ==
    (AtTick /\ Abs(get_net_position) >= max_position) =>
        /\ get_net_position >= 0 => ~TickPlaces("buy")
        /\ get_net_position <= 0 => ~TickPlaces("sell")

\* C8: on a tick with all four quotes present a buy of the configured
\* quantity is placed if and only if counter.bid - home.bid > long_threshold,
\* and its limit price is the home bid of that tick.
C8_LongPlacement ==
    AtTick =>
        /\ TickPlaces("buy") <=> (LongSpread > long_ex_threshold)
        /\ TickPlaces("buy") => TickPlacesAt("buy", extended_bbo.bid)

\* a buy was placed at the home bid on a spread above the threshold
C8_Witness ==
    /\ pc = "placing" /\ req_side = "buy" /\ req_quantity = OrderQuantity
    /\ req_price = extended_bbo.bid
    /\ LongSpread > long_ex_threshold

\* C9 as stated: whenever home.ask - counter.ask > short_threshold a sell of
\* the configured quantity is placed at home.ask.
C9_ShortAlwaysPlaces ==
    (AtTick /\ ShortSpread > short_ex_threshold) =>
        TickPlacesAt("sell", extended_bbo.ask)

\* C9 amended: ... unless counter.bid - home.bid > long_threshold holds too,
\* in which case the buy is placed and no sell.
C9_ShortPlacement ==
    (AtTick /\ ShortSpread > short_ex_threshold) =>
        IF LongSpread > long_ex_threshold
           THEN TickPlaces("buy") /\ ~TickPlaces("sell")
           ELSE TickPlacesAt("sell", extended_bbo.ask)

\* a sell was placed at the home ask on a spread above the threshold
C9_Witness ==
    /\ pc = "placing" /\ req_side = "sell" /\ req_quantity = OrderQuantity
    /\ req_price = extended_bbo.ask
    /\ ShortSpread > short_ex_threshold
    /\ ~(LongSpread > long_ex_threshold)

\* Both venues ready with equal bids and equal asks.
ZeroSpread ==
    /\ pc = "loop" /\ ~stop_flag
    /\ extended_order_book_ready /\ lighter_order_book_ready
    /\ extended_bbo.bid = lighter_bbo.bid
    /\ extended_bbo.ask = lighter_bbo.ask

\* C10 as stated: with zero spread in both directions no maker order is placed.
C10_ZeroSpreadNeverPlaces == ZeroSpread => ~ENABLED (Tick /\ pc' = "placing")

\* C10 amended: ... provided neither threshold is negative.
C10_ZeroSpreadIdle ==
    (ZeroSpread /\ long_ex_threshold >= 0 /\ short_ex_threshold >= 0) =>
        ~ENABLED (Tick /\ pc' = "placing")

\* ticks run on equal quotes and nothing has been placed
C10_Witness ==
    /\ ZeroSpread /\ AllQuotes
    /\ long_ex_threshold >= 0 /\ short_ex_threshold >= 0
    /\ Placed = {} /\ current_maker_order_id = None


\* The FILLED event of the tracked order has been accepted and its hedge is
\* pending.
FillAccepted ==
    /\ waiting_for_lighter_fill
    /\ current_maker_order_id \in OrderIds
    /\ armed_for = current_maker_order_id

\* C11: for every accepted fill the pending hedge has the side opposite to
\* the side the tracked maker order was placed with, and the quantity the
\* maker order was filled for.
C11_HedgeOppositeSide ==
    FillAccepted =>
        /\ current_lighter_side = HedgeSide(maker_side)
        /\ current_lighter_quantity = OrderQuantity


\* A price in hundredths is a whole number of ticks.
OnTick(price) == price # None /\ price % HundredthsPerTick = 0

\* C12: when a buy maker order fills, the price of the sell hedge is
\* counter.bid * 0.95 rounded to the counter venue's tick size: it is a
\* multiple of the tick.
C12_SellHedgeRoundedToTick ==
    (FillAccepted /\ maker_side = "buy" /\ current_lighter_side = "sell") =>
        OnTick(current_lighter_price)


C14_FailedPlacementReturnsIdle ==
    [][PlaceReturn(FALSE) =>
          /\ pc' = IF waiting_for_lighter_fill THEN "hedging" ELSE "loop"
          /\ current_maker_order_id' = current_maker_order_id
          /\ orders' = orders]_vars

\* a placement is in flight while an earlier order id is tracked, and it can
\* fail
C14_Witness ==
    /\ pc = "placing"
    /\ current_maker_order_id \in OrderIds
    /\ ~waiting_for_lighter_fill
    /\ ENABLED PlaceReturn(FALSE)


\* The timeout cancel of order o has been issued: its fill-wait is over.
CancelIssued(o) ==
    o \in Placed /\ (o # current_maker_order_id \/ pc # "monitor")

\* C15: a FILLED event of an order that filled before its timeout cancel took
\* effect, delivered after the cancel was issued, is accepted by
\* handle_extended_order_update, so that a hedge is armed for that order.
C15_LateFillHedged ==
    \A o \in OrderIds :
        (CancelIssued(o) /\ orders[o] = "filled") => Matches(o, "FILLED")


\* C16: cancel_order for an order that is already filled or cancelled returns
\* a successful OrderResult: the failure answer is not possible.
C16_CancelIdempotent ==
    (pc = "cancelling" /\ orders[current_maker_order_id] # "open") =>
        ~ENABLED CancelReturn(FALSE)


\* C17: a stop request made during the fill-wait aborts the wait: with
\* stop_flag set and the timeout not yet reached, the next step of the
\* coordinator leaves the wait.
C17_StopAbortsWait ==
    [][(/\ pc = "monitor" /\ stop_flag /\ ~MonitorTimedOut
        /\ (pc' # pc \/ elapsed' # elapsed)) => pc' # "monitor"]_vars

\* C18: when the coordination loop is left, by a stop request or by the
\* cancellation of its task, a cancel_order has been issued for every maker
\* order that still rests.
C18_CancelBeforeExit ==
    [][(pc # "stopped" /\ pc' = "stopped") =>
          \A o \in LiveOrders : CancelIssued(o)]_vars

\* C19: a failure inside a tick (the hedge raises, the placement or the
\* cancel fails) leaves the coordinator in the loop, and the loop ends only
\* at its own test of a stop request.
C19_FailureNeverHalts ==
    [][/\ (HedgeRaise \/ PlaceReturn(FALSE) \/ CancelReturn(FALSE)) =>
              pc' \in {"loop", "hedging"}
       /\ (pc # "stopped" /\ pc' = "stopped") => (pc = "loop" /\ stop_flag)]_vars

\* after a failed hedge the loop is running and its next tick is enabled
C19_Witness ==
    /\ pc = "loop" /\ ~stop_flag
    /\ waiting_for_lighter_fill /\ armed_for \in hedged
    /\ ENABLED Tick

OneSided(bid, ask) == (to_decimal(bid) = None) # (to_decimal(ask) = None)

\* C21: an order-book update with only one side present (the other missing
\* or unparseable) is discarded: the stored quotes are as they were.
C21_PartialUpdateDiscarded ==
    [][\A b, a \in RawValues :
          (OneSided(b, a) /\ (CallUpdateExtendedBbo(b, a) \/ CallUpdateLighterBbo(b, a)))
          => (extended_bbo' = extended_bbo /\ lighter_bbo' = lighter_bbo)]_vars

\* C22: a stored quote with both sides present has bid <= ask.
C22_BidNotAboveAsk ==
    /\ extended_order_book_ready => extended_bbo.bid <= extended_bbo.ask
    /\ lighter_order_book_ready => lighter_bbo.bid <= lighter_bbo.ask


C24_FeedsReachQuoteBook ==
    pc # "stopped" =>
       \A b, a \in Prices :
          /\ ENABLED (HandleExtendedBookUpdate(b, a) /\ extended_bbo' = Bbo(b, a))
          /\ ENABLED (ParseMessage(b, a) /\ lighter_bbo' = Bbo(b, a))


\* C25: every feed task retries for ever: while shutdown has not been
\* requested no task has given up connecting.
C25_RetriesIndefinitely ==
    ~ws_stop_flag => \A f \in Feeds : ws_task[f] # "done"

\* A message with a price that is no number.
Malformed(bid, ask) == bid = Junk \/ ask = Junk

\* C26: a malformed feed message is dropped on its own: it changes neither
\* the stored quotes nor the coordinator's state, and the feed task goes on
\* reading its connection.
C26_MalformedDropped ==
    [][\A b, a \in RawValues :
          (Malformed(b, a) /\ (HandleExtendedBookUpdate(b, a) \/ ParseMessage(b, a)))
          => UNCHANGED <<extended_bbo, lighter_bbo, omVars, taskVars, ws_task>>]_vars

\* C27: once shutdown() has been called the stop flag is set and no feed
\* task is alive, a further call changes nothing, and no feed handler
\* applies a quote update or an order event any more.
C27_ShutdownIdempotent ==
    ws_stop_flag =>
       /\ \A f \in Feeds : ws_task[f] \in {"cancelled", "done"}
       /\ ENABLED Shutdown
       /\ ~ENABLED (Shutdown /\ vars' # vars)
       /\ \A b, a \in RawPrices :
             ~ENABLED HandleExtendedBookUpdate(b, a) /\ ~ENABLED ParseMessage(b, a)
       /\ \A st \in Statuses, sd \in Sides, fs \in FilledSizes :
             ~ENABLED DeliverIdlessOrderUpdate(st, sd, fs)

\* shutdown() was called after both books had been filled and an order event
\* had been accepted; one task had ended by itself before.
C27_Witness ==
    /\ ws_stop_flag
    /\ extended_order_book_ready /\ lighter_order_book_ready
    /\ waiting_for_lighter_fill
    /\ \E f, g \in Feeds : ws_task[f] = "done" /\ ws_task[g] = "cancelled"


\* C28: a reconciliation never replaces the stored Extended position by the
\* venue's value without logging the drift.
C28_DriftReported ==
    [][extended_position' # extended_position => position_log' = "drift"]_vars

\* C29: before a maker order has been placed no order event, an event
\* without an order id included, arms a hedge, and none is dispatched.
C29_NoHedgeBeforePlacement ==
    Placed = {} => ~waiting_for_lighter_fill /\ pc # "hedging"

\* C30: while an accepted fill waits for its hedge the coordinator places
\* no new maker order: the tick dispatches the hedge first.
C30_HedgeBeforeNewOrder ==
    (pc = "loop" /\ waiting_for_lighter_fill) => ~ENABLED TickPlace


\* C31: every accepted fill is eventually followed by the dispatch of its
\* hedge when the coordinator keeps being scheduled: neither a stop request
\* nor a later fill loses it.
C31_AcceptedFillHedged ==
    \A o \in OrderIds : (armed_for = o) ~> (o \in hedged)


\* C32: every hedge that is dispatched has a price and a strictly positive
\* quantity, whatever the FILLED event carried.
C32_HedgeWellFormed ==
    [][(pc # "hedging" /\ pc' = "hedging") =>
          (current_lighter_price # None /\ current_lighter_quantity > 0)]_vars


\* place_extended_post_only_order, past a successful placement, has not
\* returned yet: it waits for the fill or for the answer to its cancel.
InFillWait == pc \in {"monitor", "cancelling"}

\* C33: place_extended_post_only_order never returns after a successful
\* placement without having sent cancel_order for that order, and it sends
\* it within the fill timeout plus one polling interval.
C33_CancelBeforeReturn ==
    [][/\ (InFillWait /\ ~InFillWait') => pc = "cancelling"
       /\ (pc = "monitor" /\ pc' = "cancelling") => elapsed <= fill_timeout + 1]_vars


\* C34: readiness is monotone: a book that is ready stays ready, whatever
\* messages the feeds deliver.
C34_ReadinessMonotone ==
    [][/\ extended_order_book_ready => extended_order_book_ready'
       /\ lighter_order_book_ready => lighter_order_book_ready']_vars

\* C35: an order event for the tracked order id whose status is not FILLED
\* (OPEN, CANCELED or missing) leaves the OrderManager's state as it was: it
\* arms no hedge and the tracked id is kept.
C35_NonFillIgnored ==
    \A st \in Statuses \ {"FILLED"}, sd \in Sides \cup {"BUY", "SELL"},
       fs \in FilledSizes \cup {None} :
        handle_extended_order_update(current_maker_order_id, st, sd, fs) = OmState

\* The tracked order was cancelled after its timeout and the venue's CANCELED
\* event for it can be delivered; no hedge is armed.
C35_Witness ==
    /\ current_maker_order_id \in Placed
    /\ orders[current_maker_order_id] = "cancelled"
    /\ ENABLED DeliverOrderUpdate(current_maker_order_id, "CANCELED", maker_side,
                                  OrderQuantity)
    /\ ~waiting_for_lighter_fill /\ armed_for = 0

====
